---- MODULE Spec2Model ----
(***************************************************************************)
(* ec.amqp (amqp.js): connection supervision, isReachable, the consume     *)
(* callbacks of workerQueue / subscribe with their ack / nack closures,    *)
(* and gracefulShutdown with the process event handlers that call it;      *)
(* the setup recipes of workerQueue / subscribe / plainChannel and their   *)
(* runs on every connection; the worker queue at the broker as far as      *)
(* deliveries, prefetch and requeue show it to this process.               *)
(*                                                                         *)
(* Scheduling model: node's single thread.  Every action is one run to     *)
(* completion of synchronous code: from an event (or a promise             *)
(* continuation, or a timer) up to the next await / return.                *)
(* Time is counted in milliseconds per timer (the time elapsed since the   *)
(* timer was armed); the clock advances in steps that divide the delays    *)
(* at hand and does not pass a timer that is due.                          *)
(***************************************************************************)
EXTENDS Integers, Sequences, FiniteSets, TLC

\* ------------------------------------------------------------ bounds
MaxTriggers == 3      \* gracefulShutdown invocations (handlers and direct calls)
MaxReach    == 2      \* isReachable calls
MaxReachShutdowns == 1  \* gracefulShutdown invocations while isReachable is studied
MaxMsgs     == 1      \* deliveries to the consume callbacks
MaxCalls    == 1      \* ack() / nack() calls the handler runs make, in all
MaxChannels == 2      \* workerQueue / subscribe / plainChannel calls
MaxSetups   == 4      \* runs of setup recipes
MaxQueued   == 2      \* messages published to the worker queue
MaxDeliveries == 2    \* deliveries the broker makes from the worker queue
MaxHosts    == 3      \* entries of amqp.hosts
MaxPublished == 2     \* publish() calls
MaxStubOps  == 6      \* calls and process events while the stub is studied
MaxDispositions == 2  \* ack() / nack() calls where repeated calls are studied
MaxOps      == 4      \* calls, deliveries and process events where all the
                      \* operations are studied together

\* ------------------------------------------------- program constants
GraceMs == 2000       \* amqp.js:99  setTimeout(resolve, 2000)
ExitStatus == 1       \* amqp.js:276 / 282  process.exit(1)

DefaultNackMs == 10000  \* amqp.js:130 / 190  nack = (timeout = 10000, ...)
FailNackMs == 10000     \* amqp.js:150 / 201  nack(10000, ...) of the catch block
DefaultPrefetch == 1    \* amqp.js:108  workerQueue(..., prefetch = 1)

\* the process events amqp.js subscribes to, plus a direct call of the export
Signals == {"SIGHUP", "SIGINT", "SIGTERM"}
Fatal   == {"uncaughtException", "unhandledRejection"}
Kinds   == Signals \cup Fatal \cup {"beforeExit", "direct"}

VARIABLES
  neverConnected,   \* amqp.js:37
  shuttingDown,     \* amqp.js:38
  connected,        \* connectionManager.isConnected()
  connectSeen,      \* history: a 'connect' event has been emitted
  closeCalls,       \* number of connectionManager.close() calls
  closeState,       \* promise of close(): "none" | "pending" | "resolved" | "rejected"
  errorLogged,      \* number of 'Error during graceful shutdown:' lines
  triggers,         \* number of handler / direct invocations started
  handlers,         \* one record per invocation that called gracefulShutdown()
  exitLog,          \* process.exit calls (at most one: nothing runs after it)
  reach,            \* one record per isReachable() call
  msgs,             \* one record per run of a consume callback
  tasks,            \* per callback run, one record per nack() call: its timer
                    \* and what follows it
  chanLog,          \* per callback run, the calls made for its message on the
                    \* channel wrapper / the channel, in order
  rejections,       \* rejected promises nobody handles, not yet reported to the process
  channels,         \* one record per createChannel({ setup }) call: what its setup closes over
  setupLog,         \* one record per run of a setup recipe: the channel calls it issued
  uuids,            \* number of uuid() calls made by setup recipes
  consuming,        \* per channel: a consumer of it is registered on the live connection
  origin,           \* per callback run started through a registered consumer: the
                    \* channel it came through, the broker's message, and whether
                    \* the broker still holds the delivery open
  stub,             \* the connection manager is the stub of amqp.js:40-50
  shuffled,         \* the last shuffleArray() call: its argument, the random
                    \* indices it drew, and the array it returned
  published         \* one record per channelWrapper.publish() call of publish()

vars == <<neverConnected, shuttingDown, connected, connectSeen, closeCalls, closeState,
          errorLogged, triggers, handlers, exitLog, reach,
          msgs, tasks, chanLog, rejections,
          channels, setupLog, uuids, consuming, origin,
          stub, shuffled, published>>

setupVars == <<channels, setupLog, uuids, consuming, origin>>

moduleVars == <<stub, shuffled, published>>

consumeVars == <<msgs, tasks, chanLog, rejections>>

connVars == <<neverConnected, connected, connectSeen>>

shutdownVars == <<shuttingDown, closeCalls, closeState, errorLogged, triggers,
                  handlers, exitLog>>

\* nothing runs after process.exit; and node reports an unhandled rejection as
\* soon as the task that left it ends, before any other event is served
Alive == exitLog = << >>
Running == Alive /\ rejections = << >>

SetAt(s, i, f, v) == [s EXCEPT ![i] = [@ EXCEPT ![f] = v]]

\* the state the module leaves when it has loaded; testing: the condition of
\* amqp.js:40-44 (NODE_ENV is 'testing', amqp.active is false, or
\* amqp.disableNewCluster is true)
Loaded(testing) ==
  /\ neverConnected = TRUE
  /\ shuttingDown = FALSE
  /\ connected = FALSE
  /\ connectSeen = FALSE
  /\ closeCalls = 0
  /\ closeState = "none"
  /\ errorLogged = 0
  /\ triggers = 0
  /\ handlers = << >>
  /\ exitLog = << >>
  /\ reach = << >>
  /\ msgs = << >>
  /\ tasks = << >>
  /\ chanLog = << >>
  /\ rejections = << >>
  /\ channels = << >>
  /\ setupLog = << >>
  /\ uuids = 0
  /\ consuming = << >>
  /\ origin = << >>
  /\ stub = testing
  /\ shuffled = [array |-> << >>, random |-> << >>, result |-> << >>]
  /\ published = << >>

Init == Loaded(FALSE)

\* a stub that reports the state of a connection nobody makes
stubNotConnected == FALSE

\* the stub's isConnected: () => true
stubIsConnected == TRUE

\* connectionManager.isConnected()
isConnected == IF stub THEN stubIsConnected ELSE connected

\* Properties and options are sets of <<key, value>> pairs.
Keys(o) == {p[1] : p \in o}
Has(o, k) == k \in Keys(o)
Get(o, k) == (CHOOSE p \in o : p[1] = k)[2]

\* Object.assign({}, a, b): b's keys win
ObjectAssign(a, b) == {p \in a : p[1] \notin Keys(b)} \cup b

BoolStr(b) == IF b THEN "true" ELSE "false"

\* a parameter with a default value: the default stands in for a missing argument
Arg(args, k, default) == IF Len(args) >= k THEN args[k] ELSE default

QuorumDurable == {<<"durable", "true">>, <<"x-queue-type", "quorum">>}

\* --------------------------------------------------- setup recipes
\* what a setup function closes over
Recipe(kind, queueName, exchange, bindings, prefetch, options, exchangeType, durable) ==
  [kind |-> kind, queueName |-> queueName, exchange |-> exchange,
   bindings |-> bindings, prefetch |-> prefetch, options |-> options,
   exchangeType |-> exchangeType, durable |-> durable]

\* workerQueue(queueName, exchange, bindings, handler, prefetch = 1)
\* rest: the arguments given after the handler
workerQueue(queueName, exchange, bindings, rest) ==
  Recipe("worker", queueName, exchange, bindings, Arg(rest, 1, DefaultPrefetch),
         {}, "", TRUE)

\* subscribe(queueNamePrefix, exchange, bindings, handler, options = {})
subscribe(queueNamePrefix, exchange, bindings, rest) ==
  Recipe("subscribe", queueNamePrefix, exchange, bindings, 0, Arg(rest, 1, {}),
         "", TRUE)

\* plainChannel(exchange, exchangeType = 'topic', durable = true); a function
\* given as exchangeType (the removed channelCallback) is replaced by 'topic'
plainChannel(exchange, rest) ==
  Recipe("plain", "", exchange, << >>, 0, {},
         IF Arg(rest, 1, "topic") = "function" THEN "topic" ELSE Arg(rest, 1, "topic"),
         Arg(rest, 2, TRUE))

\* a call on the channel a setup function is given
Call(op, exchange, type, queue, binding, count, options) ==
  [op |-> op, exchange |-> exchange, type |-> type, queue |-> queue,
   binding |-> binding, count |-> count, options |-> options]

bindQueues(queueName, r) ==
  [b \in DOMAIN r.bindings |->
     Call("bindQueue", r.exchange, "", queueName, r.bindings[b], 0, {})]

\* a mutant: the worker recipe without channel.prefetch
setupWorkerNoPrefetch(r) ==
  <<Call("assertExchange", r.exchange, "topic", << >>, "", 0, {<<"durable", "true">>}),
    Call("assertQueue", "", "", <<r.queueName>>, "", 0, QuorumDurable)>>
  \o bindQueues(<<r.queueName>>, r)
  \o <<Call("consume", "", "", <<r.queueName>>, "", 0, {<<"exclusive", "false">>})>>

\* a mutant: the consumer is registered first
setupWorkerConsumeFirst(r) ==
  <<Call("consume", "", "", <<r.queueName>>, "", 0, {<<"exclusive", "false">>}),
    Call("assertExchange", r.exchange, "topic", << >>, "", 0, {<<"durable", "true">>}),
    Call("assertQueue", "", "", <<r.queueName>>, "", 0, QuorumDurable),
    Call("prefetch", "", "", << >>, "", r.prefetch, {})>>
  \o bindQueues(<<r.queueName>>, r)

\* setup(channel) of workerQueue: the calls, in the order they are issued
setupWorker(r) ==
  <<Call("assertExchange", r.exchange, "topic", << >>, "", 0, {<<"durable", "true">>}),
    Call("assertQueue", "", "", <<r.queueName>>, "", 0, QuorumDurable),
    Call("prefetch", "", "", << >>, "", r.prefetch, {})>>
  \o bindQueues(<<r.queueName>>, r)
  \o <<Call("consume", "", "", <<r.queueName>>, "", 0, {<<"exclusive", "false">>})>>

\* a queue name that leaves the token out
subscribeQueueNamePrefixOnly(queueNamePrefix, token) == <<queueNamePrefix, "-", 0>>

\* `${queueNamePrefix}-${uuid()}`, token: what this call of uuid() returned
subscribeQueueName(queueNamePrefix, token) == <<queueNamePrefix, "-", token>>

\* setup(channel) of subscribe; token: the value of this run's uuid() call
setupSubscribe(r, token) ==
  LET queueName == subscribeQueueName(r.queueName, token)
      consumeOptions == IF Has(r.options, "noAck") /\ Get(r.options, "noAck") = "true"
                        THEN {<<"noAck", "true">>} ELSE {}
      exchangeType == IF Has(r.options, "exchangeType")
                      THEN Get(r.options, "exchangeType") ELSE "topic"
      option(key, default) == IF Has(r.options, key) THEN Get(r.options, key) ELSE default
  IN <<Call("assertExchange", r.exchange, exchangeType, << >>, "", 0,
            {<<"durable", option("durableExchange", "true")>>}),
       Call("assertQueue", "", "", queueName, "", 0,
            {<<"durable", option("durableQueue", "false")>>,
             <<"exclusive", option("exclusiveQueue", "true")>>})>>
     \o bindQueues(queueName, r)
     \o <<Call("consume", "", "", queueName, "", 0,
               ObjectAssign({<<"exclusive", "true">>}, consumeOptions))>>

\* setup(channel) of plainChannel
setupPlain(r) ==
  <<Call("assertExchange", r.exchange, r.exchangeType, << >>, "", 0,
         {<<"durable", BoolStr(r.durable)>>})>>

setup(r, token) ==
  CASE r.kind = "worker" -> setupWorker(r)
    [] r.kind = "subscribe" -> setupSubscribe(r, token)
    [] OTHER -> setupPlain(r)

\* the recipes among the first i of chs that call uuid()
Tokens(chs, i) == Cardinality({j \in 1..i : chs[j].kind = "subscribe"})

\* one run of the recipe of channel i, uuid() having been called base times before
\* the recipes of this round started
SetupRun(chs, i, base) ==
  [chan |-> i, calls |-> setup(chs[i], base + Tokens(chs, i))]

Consumes(r) == r.kind # "plain"

\* a channel is there, on a fresh connection or for a new wrapper on the
\* current one: the library runs the setup of every wrapper in chs from index from on
runSetups(chs, from) ==
  /\ setupLog' = setupLog \o
        [k \in 1..(Len(chs) - from + 1) |-> SetupRun(chs, from + k - 1,
                                             uuids - Tokens(chs, from - 1))]
  /\ uuids' = uuids + Tokens(chs, Len(chs)) - Tokens(chs, from - 1)
  /\ consuming' = [i \in DOMAIN chs |->
        IF i >= from THEN Consumes(chs[i]) ELSE consuming[i]]

\* the arguments the application calls the three functions with
CreateCalls ==
  { workerQueue("jobs", "ex", <<"a.#", "b.#">>, << >>),
    workerQueue("jobs", "ex", <<"a.#">>, <<2>>),
    subscribe("sub", "ex", <<"a.#">>, << >>),
    subscribe("sub", "ex", <<"a.#", "b.#">>,
              <<{<<"noAck", "true">>, <<"exchangeType", "fanout">>,
                 <<"durableExchange", "false">>, <<"durableQueue", "true">>,
                 <<"exclusiveQueue", "false">>}>>),
    plainChannel("ex", << >>),
    plainChannel("ex", <<"fanout", FALSE>>),
    plainChannel("ex", <<"function">>) }

\* connectionManager.createChannel({ setup }): the wrapper is registered, and
\* its setup runs at once when the connection is up
createChannel(r) ==
  /\ channels' = Append(channels, r)
  /\ IF connected
     THEN runSetups(Append(channels, r), Len(channels) + 1)
     ELSE /\ consuming' = Append(consuming, FALSE)
          /\ UNCHANGED <<setupLog, uuids>>

\* the application calls workerQueue, subscribe or plainChannel
Create(calls) ==
  /\ Running
  /\ Len(channels) < MaxChannels
  /\ connected => Len(setupLog) < MaxSetups
  /\ \E r \in calls : createChannel(r)
  /\ UNCHANGED <<moduleVars, connVars, shutdownVars, reach, consumeVars, origin>>

CreateChannel == Create(CreateCalls)

WorkerCalls == {r \in CreateCalls : r.kind = "worker"}

\* the broker forgets the deliveries it held open on a connection that ended
dropOpen ==
  origin' = [m \in DOMAIN origin |->
     IF \E e \in DOMAIN chanLog[m] : chanLog[m][e].op \in {"ack", "nack"}
     THEN origin[m] ELSE [origin[m] EXCEPT !.open = FALSE]]

\* ------------------------------------------------ connection events
\* connectionManager.on('connect'): the library keeps (re)connecting until close()
\* a mutant: the 'connect' listener only logs
onConnectLogOnly == UNCHANGED neverConnected

\* connectionManager.on('connect', (c) => { console.log(...); neverConnected = false; })
onConnect == neverConnected' = FALSE

\* the connection is established: 'connect' is emitted
OnConnect ==
  /\ Running
  /\ ~stub
  /\ ~connected
  /\ closeState = "none"
  /\ connected' = TRUE
  /\ connectSeen' = TRUE
  /\ onConnect
  /\ Len(setupLog) + Len(channels) <= MaxSetups   \* bound on the setup log
  /\ runSetups(channels, 1)
  /\ UNCHANGED <<moduleVars, shutdownVars, reach, consumeVars, channels, origin>>

\* the connection is lost: 'disconnect' is emitted, its listener only logs
OnDisconnect ==
  /\ Running
  /\ ~stub
  /\ connected
  /\ connected' = FALSE
  /\ consuming' = [i \in DOMAIN consuming |-> FALSE]
  /\ dropOpen
  /\ UNCHANGED <<moduleVars, neverConnected, connectSeen, shutdownVars, reach, consumeVars,
                 channels, setupLog, uuids>>

\* ------------------------------------------------ gracefulShutdown
NewHandler(kind, cause, promise, real) ==
  [kind |-> kind, cause |-> cause, pc |-> "awaiting", promise |-> promise,
   real |-> real]

\* a mutant: the flag is never set
gracefulShutdownNoFlag(kind, cause) ==
  /\ closeCalls' = closeCalls + 1
  /\ closeState' = "pending"
  /\ handlers' = Append(handlers, NewHandler(kind, cause, "pending", TRUE))
  /\ UNCHANGED shuttingDown

\* a mutant: no check of the flag on entry
gracefulShutdownNoGuard(kind, cause) ==
  /\ shuttingDown' = TRUE
  /\ closeCalls' = closeCalls + 1
  /\ closeState' = "pending"
  /\ handlers' = Append(handlers, NewHandler(kind, cause, "pending", TRUE))

\* gracefulShutdown(), up to its return: the check and the set of the flag and
\* the call of close() run without suspension; the caller gets a promise.
gracefulShutdown(kind, cause) ==
  IF shuttingDown
  THEN /\ handlers' = Append(handlers, NewHandler(kind, cause, "fulfilled", FALSE))
       /\ UNCHANGED <<shuttingDown, closeCalls, closeState>>
  ELSE /\ shuttingDown' = TRUE
       /\ closeCalls' = closeCalls + 1
       /\ closeState' = "pending"
       /\ handlers' = Append(handlers, NewHandler(kind, cause, "pending", TRUE))

\* process.on(<event>, async () => { ...; await gracefulShutdown(); ... }), or a
\* direct call of the exported gracefulShutdown: the part before the await
handlerEntry(kind, cause) ==
  /\ triggers' = triggers + 1
  /\ gracefulShutdown(kind, cause)

\* a process event reaches its handler (or the application calls the export)
Trigger(kind) ==
  /\ Running
  /\ triggers < MaxTriggers
  /\ handlerEntry(kind, "event")
  /\ UNCHANGED <<moduleVars, setupVars, connVars, errorLogged, exitLog, reach, consumeVars>>

\* connectionManager.close() settles
CloseResolves ==
  /\ Running
  /\ closeState = "pending"
  /\ closeState' = "resolved"
  /\ connected' = FALSE
  /\ handlers' = [i \in DOMAIN handlers |->
        IF handlers[i].real /\ handlers[i].promise = "pending"
        THEN [handlers[i] EXCEPT !.promise = "fulfilled"] ELSE handlers[i]]
  /\ consuming' = [i \in DOMAIN consuming |-> FALSE]
  /\ dropOpen
  /\ UNCHANGED <<moduleVars, neverConnected, connectSeen, shuttingDown, closeCalls, errorLogged, triggers,
                 exitLog, reach, consumeVars, channels, setupLog, uuids>>

CloseRejects ==
  /\ Running
  /\ ~stub                     \* the stub's close: () => Promise.resolve()
  /\ closeState = "pending"
  /\ closeState' = "rejected"
  /\ UNCHANGED <<moduleVars, setupVars, connVars, shuttingDown, closeCalls, errorLogged,
                 triggers, handlers, exitLog, reach, consumeVars>>

\* a mutant: no .catch on close()
closeNoCatch(i) ==
  /\ handlers' = SetAt(handlers, i, "promise", "rejected")
  /\ UNCHANGED errorLogged

\* .catch((err) => { console.error('Error during graceful shutdown:', err); })
closeCatch(i) ==
  /\ errorLogged' = errorLogged + 1
  /\ handlers' = SetAt(handlers, i, "promise", "fulfilled")

CloseCaught ==
  /\ Running
  /\ closeState = "rejected"
  /\ \E i \in DOMAIN handlers :
       /\ handlers[i].real
       /\ handlers[i].promise = "pending"
       /\ closeCatch(i)
  /\ UNCHANGED <<moduleVars, setupVars, connVars, shuttingDown, closeCalls, closeState,
                 triggers, exitLog, reach, consumeVars>>

\* a mutant: process.exit(1) without awaiting the shutdown
afterAwaitNoAwait(i) ==
  /\ handlers[i].pc = "awaiting"
  /\ IF handlers[i].kind \in Fatal
     THEN /\ handlers' = SetAt(handlers, i, "pc", "exited")
          /\ exitLog' = Append(exitLog,
                [code |-> ExitStatus, kind |-> handlers[i].kind,
                 cause |-> handlers[i].cause,
                 promise |-> handlers[i].promise, close |-> closeState])
     ELSE /\ handlers[i].promise # "pending"
          /\ handlers' = SetAt(handlers, i, "pc", "done")
          /\ UNCHANGED exitLog

\* the handler after `await gracefulShutdown()`
afterAwait(i) ==
  /\ handlers[i].pc = "awaiting"
  /\ handlers[i].promise # "pending"
  /\ IF handlers[i].promise = "rejected"
     THEN /\ handlers' = SetAt(handlers, i, "pc", "threw")
          /\ UNCHANGED exitLog
     ELSE IF handlers[i].kind \in Fatal
     THEN /\ handlers' = SetAt(handlers, i, "pc", "exited")
          /\ exitLog' = Append(exitLog,
                [code |-> ExitStatus, kind |-> handlers[i].kind,
                 cause |-> handlers[i].cause,
                 promise |-> handlers[i].promise, close |-> closeState])
     ELSE /\ handlers' = SetAt(handlers, i, "pc", "done")
          /\ UNCHANGED exitLog

Resume ==
  /\ Running
  /\ \E i \in DOMAIN handlers : afterAwait(i)
  /\ UNCHANGED <<moduleVars, setupVars, connVars, shuttingDown, closeCalls, closeState,
                 errorLogged, triggers, reach, consumeVars>>

\* ------------------------------------------------------ isReachable
NewCall(pc, result, waits) ==
  [pc |-> pc, result |-> result, waits |-> waits, elapsed |-> 0, rechecks |-> 0,
   shutAtCall |-> shuttingDown, connAtCall |-> isConnected,
   seenAtCall |-> connectSeen, connAtRecheck |-> FALSE]

\* a mutant: the connection is looked at before the flag
isReachableConnFirst ==
  IF isConnected THEN NewCall("done", "true", 0)
  ELSE IF shuttingDown THEN NewCall("done", "false", 0)
  ELSE IF neverConnected THEN NewCall("waiting", "none", 1)
  ELSE NewCall("done", "notConnected", 0)

\* isReachable(), up to its first await or its return / throw
isReachableEntry ==
  IF shuttingDown THEN NewCall("done", "false", 0)
  ELSE IF isConnected THEN NewCall("done", "true", 0)
  ELSE IF neverConnected THEN NewCall("waiting", "none", 1)
  ELSE NewCall("done", "notConnected", 0)

\* a mutant: isReachable() clears the shutdown flag
IsReachableClearsFlag ==
  /\ Running
  /\ Len(reach) < MaxReach
  /\ reach' = Append(reach, isReachableEntry)
  /\ shuttingDown' = FALSE
  /\ UNCHANGED <<moduleVars, setupVars, connVars, closeCalls, closeState, errorLogged,
                 triggers, handlers, exitLog, consumeVars>>

IsReachable ==
  /\ Running
  /\ Len(reach) < MaxReach
  /\ reach' = Append(reach, isReachableEntry)
  /\ UNCHANGED <<moduleVars, setupVars, connVars, shutdownVars, consumeVars>>

\* a mutant: a failed recheck waits another window
isReachableRecheckLoop(c) ==
  IF isConnected
  THEN [c EXCEPT !.pc = "done", !.result = "true", !.rechecks = @ + 1,
                 !.connAtRecheck = TRUE]
  ELSE [c EXCEPT !.waits = @ + 1, !.rechecks = @ + 1, !.elapsed = 0]

\* isReachable() after the grace window
isReachableRecheck(c) ==
  IF isConnected
  THEN [c EXCEPT !.pc = "done", !.result = "true", !.rechecks = @ + 1,
                 !.connAtRecheck = TRUE]
  ELSE [c EXCEPT !.pc = "done", !.result = "notYet", !.rechecks = @ + 1]

GraceElapsed ==
  /\ Running
  /\ \E i \in DOMAIN reach :
       /\ reach[i].pc = "waiting"
       /\ reach[i].elapsed >= GraceMs
       /\ reach' = [reach EXCEPT ![i] = isReachableRecheck(reach[i])]
  /\ UNCHANGED <<moduleVars, setupVars, connVars, shutdownVars, consumeVars>>

\* ------------------------------------------------- consume callbacks
\* message.content is a sequence of characters; JSON.parse accepts a number or
\* a one-element array of a number here, and throws on anything else
Digits == {"7", "8"}
DigitVal(d) == IF d = "7" THEN 7 ELSE 8
IsNumber(c) == Len(c) = 1 /\ c[1] \in Digits
IsArray(c) == Len(c) = 3 /\ c[1] = "[" /\ c[2] \in Digits /\ c[3] = "]"
ParseFails(c) == ~IsNumber(c) /\ ~IsArray(c)
JSONParse(c) ==
  IF IsNumber(c) THEN [kind |-> "number", items |-> <<DigitVal(c[1])>>]
  ELSE IF IsArray(c) THEN [kind |-> "array", items |-> <<DigitVal(c[2])>>]
  ELSE [kind |-> "SyntaxError", items |-> << >>]

NoEvent == [kind |-> "none", items |-> << >>]

\* what the broker hands to a consume callback: a message, or null on cancel
Message(content, type, redelivered) ==
  [null |-> FALSE, content |-> content, properties |-> {<<"type", type>>},
   redelivered |-> redelivered]
NullMessage ==
  [null |-> TRUE, content |-> << >>, properties |-> {}, redelivered |-> FALSE]
\* the n-th delivery: payloads are told apart by the delivery they came with
Deliveries(n) ==
  { IF n % 2 = 1 THEN Message(<<"7">>, "created", FALSE)
                 ELSE Message(<<"[", "8", "]">>, "deleted", TRUE),
    Message(<<"{">>, "created", FALSE),
    NullMessage }

Patterns == {"worker", "subscribe"}

\* the argument lists a handler calls nack with: (timeout, requeue, redirectQueue)
NackCalls == { << >>, <<5000, FALSE, "dlq">>, <<5000, TRUE>>, <<10000, TRUE, "dlq">> }

\* amqplib's nack(message, allUpTo, requeue) requeues unless requeue is given
\* as false (README: `false` is the default here "in contrast to amqplib
\* native behavior")
Requeues(args) == Arg(args, 2, TRUE)

LogEntry(op, target, t, queue, content, properties, options, args, elapsed) ==
  [op |-> op, target |-> target, task |-> t, queue |-> queue,
   content |-> content, properties |-> properties, options |-> options,
   args |-> args, elapsed |-> elapsed]

\* const properties = Object.assign({}, message.properties, { redelivered })
workerProperties(message) ==
  ObjectAssign(message.properties, {<<"redelivered", BoolStr(message.redelivered)>>})

\* the properties the handler is given
handlerProperties(pattern, message) ==
  IF pattern = "worker" THEN workerProperties(message) ELSE message.properties

NewMsg(pattern, message, pc, error) ==
  [pattern |-> pattern, message |-> message, pc |-> pc, error |-> error,
   event |-> IF pc = "handler" THEN JSONParse(message.content) ELSE NoEvent,
   properties |-> IF pc = "handler" THEN handlerProperties(pattern, message) ELSE {},
   threw |-> FALSE]

\* a mutant: the handler is called with whatever the payload gave
consumeCallbackNoParse(pattern, message) ==
  IF message.null
  THEN /\ msgs' = Append(msgs, NewMsg(pattern, message, "rejected", "cancelled"))
       /\ rejections' = Append(rejections, "cancelled")
  ELSE /\ msgs' = Append(msgs, NewMsg(pattern, message, "handler", "none"))
       /\ UNCHANGED rejections

\* async (message) => { ... }, up to the call of the handler
consumeCallback(pattern, message) ==
  IF message.null
  THEN /\ msgs' = Append(msgs, NewMsg(pattern, message, "rejected", "cancelled"))
       /\ rejections' = Append(rejections, "cancelled")
  ELSE IF ParseFails(message.content)
  THEN /\ msgs' = Append(msgs, NewMsg(pattern, message, "rejected", "parse"))
       /\ rejections' = Append(rejections, "parse")
  ELSE /\ msgs' = Append(msgs, NewMsg(pattern, message, "handler", "none"))
       /\ UNCHANGED rejections

\* the broker delivers to a consume callback
Deliver ==
  /\ Running
  /\ Len(msgs) < MaxMsgs
  /\ \E pattern \in Patterns, message \in Deliveries(Len(msgs) + 1) :
       consumeCallback(pattern, message)
  /\ tasks' = Append(tasks, << >>)
  /\ chanLog' = Append(chanLog, << >>)
  /\ UNCHANGED <<moduleVars, setupVars, connVars, shutdownVars, reach>>

\* a mutant: the callback consumes again when its consumer is cancelled
cancelledReconsume(c) == consuming' = [consuming EXCEPT ![c] = TRUE]

\* if (!message) { throw ... }: the callback makes no call on the channel; the
\* cancelled consumer is gone
cancelled(c) == consuming' = [consuming EXCEPT ![c] = FALSE]

\* the broker cancels the consumer of a channel: the callback gets null
ConsumerCancelled ==
  /\ Running
  /\ Len(msgs) < MaxMsgs
  /\ \E c \in DOMAIN channels :
       /\ consuming[c]
       /\ consumeCallback(channels[c].kind, NullMessage)
       /\ cancelled(c)
       /\ origin' = Append(origin, [chan |-> c, id |-> 0, open |-> FALSE])
  /\ tasks' = Append(tasks, << >>)
  /\ chanLog' = Append(chanLog, << >>)
  /\ UNCHANGED <<moduleVars, connVars, shutdownVars, reach, channels, setupLog, uuids>>

\* ---- the worker queue at the broker, as far as the deliveries to this
\* process show it.  A delivery is open from the broker's point of view until
\* its first ack or nack arrives or its connection ends.
Dispositions(m) == SelectSeq(chanLog[m], LAMBDA e : e.op \in {"ack", "nack"})
Disposed(m) == Dispositions(m) # << >>
Held(m) == origin[m].open /\ ~Disposed(m)
HeldOn(c) == {m \in DOMAIN origin : origin[m].chan = c /\ origin[m].id # 0 /\ Held(m)}

DeliveriesOf(id) == {m \in DOMAIN origin : origin[m].id = id}
LastOf(id) == CHOOSE m \in DeliveriesOf(id) : \A n \in DeliveriesOf(id) : n <= m

\* the message is in the queue: never delivered, or given back by a nack with
\* requeue or by the end of the connection that held it
Ready(id) ==
  IF DeliveriesOf(id) = {} THEN TRUE
  ELSE LET m == LastOf(id) IN
       IF ~origin[m].open THEN TRUE
       ELSE IF ~Disposed(m) THEN FALSE
       ELSE Dispositions(m)[1].op = "nack" /\ Requeues(Dispositions(m)[1].args)

\* the prefetch count the latest setup run of channel c asked for; 0: none
Prefetch(c) ==
  LET runs == SelectSeq(setupLog, LAMBDA run : run.chan = c)
      calls == SelectSeq(runs[Len(runs)].calls, LAMBDA call : call.op = "prefetch")
  IN IF calls = << >> THEN 0 ELSE calls[Len(calls)].count

\* the broker delivers a message of the worker queue to one of its consumers
BrokerDeliver ==
  /\ Running
  /\ Len(msgs) < MaxDeliveries
  /\ \E c \in DOMAIN channels, id \in 1..MaxQueued :
       /\ consuming[c]
       /\ channels[c].kind = "worker"
       /\ Ready(id)
       /\ IF Prefetch(c) = 0 THEN TRUE ELSE Cardinality(HeldOn(c)) < Prefetch(c)
       /\ consumeCallback("worker",
                          Message(<<"7">>, "created", DeliveriesOf(id) # {}))
       /\ origin' = Append(origin, [chan |-> c, id |-> id, open |-> TRUE])
  /\ tasks' = Append(tasks, << >>)
  /\ chanLog' = Append(chanLog, << >>)
  /\ UNCHANGED <<moduleVars, connVars, shutdownVars, reach, channels, setupLog, uuids,
                 consuming>>

RECURSIVE SumLen(_, _)
SumLen(s, n) == IF n = 0 THEN 0 ELSE Len(s[n]) + SumLen(s, n - 1)

Acks(m) == SelectSeq(chanLog[m], LAMBDA e : e.op = "ack")
Nacks(m) == SelectSeq(chanLog[m], LAMBDA e : e.op = "nack")
ByHandler(m) == SelectSeq(tasks[m], LAMBDA t : t.by = "handler")

\* ack() and nack() calls made by handlers so far
HandlerCalls ==
  SumLen([m \in DOMAIN msgs |-> Acks(m)], Len(msgs))
    + SumLen([m \in DOMAIN msgs |-> ByHandler(m)], Len(msgs))

Log(m, entry) == chanLog' = [chanLog EXCEPT ![m] = Append(@, entry)]

SetTask(m, t, pc) == tasks' = [tasks EXCEPT ![m] = SetAt(@, t, "pc", pc)]

\* a mutant: an ack that names no message
ackBlank(m) ==
  Log(m, LogEntry("ack", "channelWrapper", 0, "", << >>, {}, {}, << >>, 0))

\* const ack = () => channelWrapper.ack(message): the entry carries the
\* message the call names
ack(m) ==
  Log(m, LogEntry("ack", "channelWrapper", 0, "", msgs[m].message.content,
                  msgs[m].message.properties, {}, << >>, 0))

\* a handler calls ack, the handlers having made fewer than limit calls
HandlerAcksUpTo(limit) ==
  /\ Running
  /\ HandlerCalls < limit
  /\ \E m \in DOMAIN msgs :
       /\ msgs[m].pc = "handler"
       /\ ack(m)
  /\ UNCHANGED <<moduleVars, setupVars, connVars, shutdownVars, reach, msgs, tasks,
                 rejections>>

HandlerAcks == HandlerAcksUpTo(MaxCalls)

NewTask(by, timeout, nackArgs, redirect) ==
  [by |-> by, timeout |-> timeout, nackArgs |-> nackArgs, redirect |-> redirect,
   pc |-> "timer", elapsed |-> 0]

\* worker: nack = (timeout = 10000, requeue = false, redirectQueue) => setTimeout(...)
\* subscribe: nack = (timeout = 10000) => setTimeout(...)
\* the call arms a timer and returns
nack(m, by, args) ==
  IF msgs[m].pattern = "worker"
  THEN tasks' = [tasks EXCEPT ![m] = Append(@,
          NewTask(by, Arg(args, 1, DefaultNackMs),
                  <<FALSE, Arg(args, 2, FALSE)>>, Arg(args, 3, "")))]
  ELSE tasks' = [tasks EXCEPT ![m] = Append(@,
          NewTask(by, Arg(args, 1, DefaultNackMs), << >>, ""))]

\* a handler calls nack with one of the argument lists calls
HandlerNacksUpTo(limit, calls) ==
  /\ Running
  /\ HandlerCalls < limit
  /\ \E m \in DOMAIN msgs, args \in calls :
       /\ msgs[m].pc = "handler"
       /\ nack(m, "handler", args)
  /\ UNCHANGED <<moduleVars, setupVars, connVars, shutdownVars, reach, msgs, chanLog,
                 rejections>>

HandlerNacksWith(calls) == HandlerNacksUpTo(MaxCalls, calls)

HandlerNacks == HandlerNacksWith(NackCalls)

\* the calls without a redirect queue
PlainNackCalls == {args \in NackCalls : Len(args) < 3}

\* the handler's promise fulfils: the callback ends
HandlerReturns ==
  /\ Running
  /\ \E m \in DOMAIN msgs :
       /\ msgs[m].pc = "handler"
       /\ msgs' = SetAt(msgs, m, "pc", "resolved")
  /\ UNCHANGED <<moduleVars, setupVars, connVars, shutdownVars, reach, tasks, chanLog,
                 rejections>>

\* a mutant: no try / catch around the handler
handlerNoCatch(m) ==
  /\ msgs' = [msgs EXCEPT ![m] = [@ EXCEPT !.pc = "rejected", !.threw = TRUE,
                                            !.error = "handler"]]
  /\ rejections' = Append(rejections, "handler")
  /\ UNCHANGED tasks

\* catch (err) { console.error(err); nack(10000, true); }   (subscribe: nack(10000))
handlerCatch(m) ==
  /\ msgs' = [msgs EXCEPT ![m] = [@ EXCEPT !.pc = "resolved", !.threw = TRUE]]
  /\ IF msgs[m].pattern = "worker"
     THEN nack(m, "catch", <<FailNackMs, TRUE>>)
     ELSE nack(m, "catch", <<FailNackMs>>)
  /\ UNCHANGED rejections

\* the handler throws, or its promise rejects
HandlerThrows ==
  /\ Running
  /\ \E m \in DOMAIN msgs :
       /\ msgs[m].pc = "handler"
       /\ handlerCatch(m)
  /\ UNCHANGED <<moduleVars, setupVars, connVars, shutdownVars, reach, chanLog>>

NackEntry(m, t) ==
  LogEntry("nack", "channelWrapper", t, "", << >>, {}, {},
           tasks[m][t].nackArgs, tasks[m][t].elapsed)

\* a mutant: the timer callback leaves a message alone that has been
\* acknowledged or rejected before
timerCallbackOnce(m, t) ==
  IF Acks(m) # << >> \/ Nacks(m) # << >>
  THEN /\ SetTask(m, t, "done")
       /\ UNCHANGED chanLog
  ELSE IF tasks[m][t].redirect # ""
  THEN /\ Log(m, LogEntry("assertQueue", "channel", t, tasks[m][t].redirect,
                          << >>, {}, QuorumDurable, << >>, tasks[m][t].elapsed))
       /\ SetTask(m, t, "declaring")
  ELSE /\ Log(m, NackEntry(m, t))
       /\ SetTask(m, t, "done")

\* the timer of a nack() call runs: the callback up to its first await / its end
timerCallback(m, t) ==
  IF tasks[m][t].redirect # ""
  THEN /\ Log(m, LogEntry("assertQueue", "channel", t, tasks[m][t].redirect,
                          << >>, {}, QuorumDurable, << >>, tasks[m][t].elapsed))
       /\ SetTask(m, t, "declaring")
  ELSE /\ Log(m, NackEntry(m, t))
       /\ SetTask(m, t, "done")

TimerFires ==
  /\ Running
  /\ \E m \in DOMAIN msgs : \E t \in DOMAIN tasks[m] :
       /\ tasks[m][t].pc = "timer"
       /\ tasks[m][t].elapsed >= tasks[m][t].timeout
       /\ timerCallback(m, t)
  /\ UNCHANGED <<moduleVars, setupVars, connVars, shutdownVars, reach, msgs, rejections>>

\* a mutant: the copy carries the properties the handler was given
sendToQueueHandlerProperties(m, t) ==
  /\ Log(m, LogEntry("sendToQueue", "channelWrapper", t, tasks[m][t].redirect,
                     msgs[m].message.content, msgs[m].properties, {},
                     << >>, tasks[m][t].elapsed))
  /\ SetTask(m, t, "copying")

\* await channelWrapper.sendToQueue(redirectQueue, message.content, message.properties)
sendToQueue(m, t) ==
  /\ Log(m, LogEntry("sendToQueue", "channelWrapper", t, tasks[m][t].redirect,
                     msgs[m].message.content, msgs[m].message.properties, {},
                     << >>, tasks[m][t].elapsed))
  /\ SetTask(m, t, "copying")

\* a mutant: the original is nacked although the awaited call failed
awaitRejectsNacks(m, t) ==
  /\ SetTask(m, t, "failed")
  /\ rejections' = Append(rejections, "redirect")
  /\ Log(m, NackEntry(m, t))

\* an awaited channel call of the timer callback rejects: so does the callback
awaitRejects(m, t) ==
  /\ SetTask(m, t, "failed")
  /\ rejections' = Append(rejections, "redirect")
  /\ UNCHANGED chanLog

\* channel.assertQueue(redirectQueue, ...) settles
Declared ==
  /\ Running
  /\ \E m \in DOMAIN msgs : \E t \in DOMAIN tasks[m] :
       /\ tasks[m][t].pc = "declaring"
       /\ \/ sendToQueue(m, t) /\ UNCHANGED rejections
          \/ awaitRejects(m, t)
  /\ UNCHANGED <<moduleVars, setupVars, connVars, shutdownVars, reach, msgs>>

\* return channelWrapper.nack(message, false, requeue), after the copy
nackAfterCopy(m, t) ==
  /\ Log(m, NackEntry(m, t))
  /\ SetTask(m, t, "done")

\* channelWrapper.sendToQueue(...) settles
Copied ==
  /\ Running
  /\ \E m \in DOMAIN msgs : \E t \in DOMAIN tasks[m] :
       /\ tasks[m][t].pc = "copying"
       /\ \/ nackAfterCopy(m, t) /\ UNCHANGED rejections
          \/ awaitRejects(m, t)
  /\ UNCHANGED <<moduleVars, setupVars, connVars, shutdownVars, reach, msgs>>

\* node reports a rejected promise nobody handles: process.on('unhandledRejection')
UnhandledRejection ==
  /\ Alive
  /\ rejections # << >>
  /\ handlerEntry("unhandledRejection", Head(rejections))
  /\ rejections' = Tail(rejections)
  /\ UNCHANGED <<moduleVars, setupVars, connVars, errorLogged, exitLog, reach, msgs, tasks,
                 chanLog>>

\* ------------------------------------------------------------- time
TimerArmed ==
  \/ \E i \in DOMAIN reach : reach[i].pc = "waiting"
  \/ \E m \in DOMAIN tasks : \E t \in DOMAIN tasks[m] : tasks[m][t].pc = "timer"

TimerDue ==
  \/ \E i \in DOMAIN reach : reach[i].pc = "waiting" /\ reach[i].elapsed >= GraceMs
  \/ \E m \in DOMAIN tasks : \E t \in DOMAIN tasks[m] :
        tasks[m][t].pc = "timer" /\ tasks[m][t].elapsed >= tasks[m][t].timeout

\* step milliseconds pass
Tick(step) ==
  /\ Running
  /\ TimerArmed
  /\ ~TimerDue
  /\ reach' = [i \in DOMAIN reach |->
        IF reach[i].pc = "waiting"
        THEN [reach[i] EXCEPT !.elapsed = @ + step] ELSE reach[i]]
  /\ tasks' = [m \in DOMAIN tasks |-> [t \in DOMAIN tasks[m] |->
        IF tasks[m][t].pc = "timer"
        THEN [tasks[m][t] EXCEPT !.elapsed = @ + step] ELSE tasks[m][t]]]
  /\ UNCHANGED <<moduleVars, setupVars, connVars, shutdownVars, msgs, chanLog, rejections>>

\* ------------------------------------------------------------- specs
\* the shutdown coordinator and the connection
Next ==
  \/ OnConnect
  \/ OnDisconnect
  \/ \E k \in Kinds : Trigger(k)
  \/ CloseResolves
  \/ CloseRejects
  \/ CloseCaught
  \/ Resume

Spec == Init /\ [][Next]_vars

\* isReachable against the connection and a shutdown
ReachShutdown == triggers < MaxReachShutdowns /\ \E k \in Kinds : Trigger(k)

NextReach ==
  \/ OnConnect
  \/ OnDisconnect
  \/ ReachShutdown
  \/ CloseResolves
  \/ CloseRejects
  \/ CloseCaught
  \/ Resume
  \/ IsReachable
  \/ GraceElapsed
  \/ Tick(GraceMs \div 2)

SpecReach == Init /\ [][NextReach]_vars

\* the same, with a broker that does not stay away for ever: a connection
\* attempt that remains possible is made and succeeds
SpecLive == Spec /\ WF_vars(OnConnect)

\* the consume callbacks, their timers, and what a rejection they leave does
NextConsume ==
  \/ Deliver
  \/ HandlerAcks
  \/ HandlerNacks
  \/ HandlerReturns
  \/ HandlerThrows
  \/ TimerFires
  \/ Declared
  \/ Copied
  \/ Tick(DefaultNackMs \div 2)
  \/ UnhandledRejection
  \/ CloseResolves
  \/ CloseRejects
  \/ CloseCaught
  \/ Resume

SpecConsume == Init /\ [][NextConsume]_vars

\* channel wrappers, the runs of their setup recipes, and a cancelled consumer
NextSetup ==
  \/ CreateChannel
  \/ OnConnect
  \/ OnDisconnect
  \/ ConsumerCancelled
  \/ UnhandledRejection
  \/ CloseResolves
  \/ CloseRejects
  \/ CloseCaught
  \/ Resume

SpecSetup == Init /\ [][NextSetup]_vars

\* worker-queue consumers of this process against the queue at the broker
NextBroker ==
  \/ Create(WorkerCalls)
  \/ OnConnect
  \/ OnDisconnect
  \/ BrokerDeliver
  \/ HandlerAcks
  \/ HandlerNacksWith(PlainNackCalls)
  \/ HandlerReturns
  \/ HandlerThrows
  \/ TimerFires
  \/ Tick(DefaultNackMs \div 2)

SpecBroker == Init /\ [][NextBroker]_vars

\* ------------------------------------------------------ shuffleArray
\* the configured endpoints; the map of amqp.js:29-35 turns each host into
\* its URL one to one, so an element stands for its URL
Hosts == {"h1", "h2", "h3"}

HostLists == UNION {[1..n -> Hosts] : n \in 0..MaxHosts}

\* Math.random() is a number in [0, 1): k / MaxHosts for k in Randoms
Randoms == 0..(MaxHosts - 1)

\* Math.floor(Math.random() * (i + 1))
floorRandom(k, i) == (k * (i + 1)) \div MaxHosts

\* array[i] of the source is array[i + 1] here
swapCopy(array, i, j) == [array EXCEPT ![i + 1] = array[j + 1]]

\* [array[i], array[j]] = [array[j], array[i]]
swap(array, i, j) ==
  [array EXCEPT ![i + 1] = array[j + 1], ![j + 1] = array[i + 1]]

\* the loop from i down to 1; random[i] is the number drawn in iteration i
RECURSIVE shuffleLoop(_, _, _)
shuffleLoop(array, random, i) ==
  IF i > 0
    THEN shuffleLoop(swap(array, i, floorRandom(random[i], i)), random, i - 1)
    ELSE array

shuffleArray(array, random) == shuffleLoop(array, random, Len(array) - 1)

\* the one call, amqp.js:29, made while the module loads
ShuffleArray ==
  \E array \in HostLists :
    \E random \in [1..(Len(array) - 1) -> Randoms] :
      /\ shuffled.array = << >>
      /\ shuffled' = [array |-> array, random |-> random,
                      result |-> shuffleArray(array, random)]
      /\ UNCHANGED <<connVars, shutdownVars, reach, consumeVars, setupVars,
                     stub, published>>

NextShuffle == ShuffleArray

SpecShuffle == Init /\ [][NextShuffle]_vars

\* ---------------------------------------------- publishChannel / publish
\* a parameter the caller left out, or passed as undefined
Undefined == "undefined"

DigitChar(n) == IF n = 7 THEN "7" ELSE "8"

\* JSON.stringify of the values JSONParse knows: a number, an array of one
JSONStringify(v) ==
  IF v.kind = "number" THEN <<DigitChar(v.items[1])>>
  ELSE <<"[", DigitChar(v.items[1]), "]">>

\* uuid(): the n-th call returns a string no other call returns
UuidStr(n) == ToString(n)

\* options left out: Object.assign skips a source that is undefined, as it
\* copies nothing from an empty object
NoOptions == {}

AssignOptions(a, options) == ObjectAssign(a, options)

\* now: new Date().getTime()
publishDefaults(id, now) ==
  {<<"persistent", "true">>, <<"contentType", "application/json">>,
   <<"messageId", UuidStr(id)>>, <<"type", "event">>, <<"appId", "unknown">>,
   <<"timestamp", now>>}

\* the positional arguments laid over the options
publishPropertiesArgsLast(type, appID, options, id, now) ==
  ObjectAssign(AssignOptions(publishDefaults(id, now), options),
               {<<"type", type>>, <<"appId", appID>>})

\* Object.assign(defaults, { type, appId: appID }, options): an own property
\* is copied whatever its value, undefined included
publishProperties(type, appID, options, id, now) ==
  AssignOptions(ObjectAssign(publishDefaults(id, now),
                             {<<"type", type>>, <<"appId", appID>>}),
                options)

\* publish(routingKey, content, type, appID, options) on the wrapper of
\* channel c; rest: the arguments given after content
publish(c, routingKey, content, rest, id, now) ==
  [channel |-> c, sent |-> ~stub,
   exchange |-> channels[c].exchange, routingKey |-> routingKey,
   content |-> JSONStringify(content),
   properties |-> publishProperties(Arg(rest, 1, Undefined), Arg(rest, 2, Undefined),
                                    Arg(rest, 3, NoOptions), id, now),
   args |-> [content |-> content, type |-> Arg(rest, 1, Undefined),
             appID |-> Arg(rest, 2, Undefined), options |-> Arg(rest, 3, NoOptions),
             id |-> id, now |-> now]]

Number7 == [kind |-> "number", items |-> <<7>>]
Array8 == [kind |-> "array", items |-> <<8>>]

\* calls of publish: the content, the clock's reading, and the arguments
\* given after content
PublishCalls ==
  { <<Number7, "t1", << >>>>,
    <<Array8, "t2", <<"created">>>>,
    <<Number7, "t2", <<"created", "svc">>>>,
    <<Array8, "t1", <<"created", "svc", {<<"expiration", "60000">>}>>>>,
    <<Number7, "t1", <<"created", "svc", {<<"type", "deleted">>, <<"appId", "other">>}>>>>,
    <<Array8, "t2", <<Undefined, Undefined,
                      {<<"type", "deleted">>, <<"persistent", "false">>}>>>>,
    <<Number7, "t2", <<"created", "svc",
                       {<<"messageId", "mine">>, <<"timestamp", "t0">>,
                        <<"contentType", "text/plain">>}>>>> }

PlainCalls == {r \in CreateCalls : r.kind = "plain"}

\* the application calls a publish function publishChannel gave it
PublishWith(calls) ==
  /\ Running
  /\ Len(published) < MaxPublished
  /\ \E c \in DOMAIN channels, call \in calls :
       /\ channels[c].kind = "plain"
       /\ uuids' = uuids + 1
       /\ published' = Append(published,
                              publish(c, "a.b", call[1], call[3], uuids + 1, call[2]))
  /\ UNCHANGED <<connVars, shutdownVars, reach, consumeVars,
                 channels, setupLog, consuming, origin, stub, shuffled>>

Publish == PublishWith(PublishCalls)

NextPublish ==
  \/ Create(PlainCalls)
  \/ Publish

SpecPublish == Init /\ [][NextPublish]_vars

\* ------------------------------------------------------- the stub
\* what can happen when the module has loaded with the stub in place: no
\* connection manager exists, so no connection event arrives and nothing is
\* delivered; the application and the process events are as ever
InitStub == Loaded(TRUE)

\* one call of each of workerQueue, subscribe and plainChannel
StubCalls ==
  { workerQueue("jobs", "ex", <<"a.#">>, <<2>>),
    subscribe("sub", "ex", <<"a.#">>, << >>),
    plainChannel("ex", << >>) }

StubPublishCalls ==
  {call \in PublishCalls : call[3] \in {<< >>, <<"created", "svc">>}}

StubKinds == {"SIGTERM", "uncaughtException", "direct"}

StubOps == triggers + Len(reach) + Len(channels) + Len(published)

NextStub ==
  \/ StubOps < MaxStubOps /\ \E k \in StubKinds : Trigger(k)
  \/ CloseResolves
  \/ Resume
  \/ StubOps < MaxStubOps /\ IsReachable
  \/ StubOps < MaxStubOps /\ Create(StubCalls)
  \/ StubOps < MaxStubOps /\ PublishWith(StubPublishCalls)

SpecStub == InitStub /\ [][NextStub]_vars

\* ------------------------------------------------- the whole process
\* every operation of the module together with the connection, the process
\* events and the timers; the operations are few, their order is free
Ops == triggers + Len(reach) + Len(channels) + Len(published) + Len(msgs)
         + HandlerCalls

Within == Ops < MaxOps

NextProcess ==
  \/ OnConnect
  \/ OnDisconnect
  \/ Within /\ ReachShutdown
  \/ CloseResolves
  \/ CloseRejects
  \/ CloseCaught
  \/ Resume
  \/ UnhandledRejection
  \/ Within /\ IsReachable
  \/ GraceElapsed
  \/ Within /\ Create(StubCalls)
  \/ Within /\ PublishWith(StubPublishCalls)
  \/ Within /\ Deliver
  \/ Within /\ HandlerAcksUpTo(MaxDispositions)
  \/ Within /\ HandlerNacksUpTo(MaxDispositions, PlainNackCalls)
  \/ HandlerReturns
  \/ HandlerThrows
  \/ TimerFires
  \/ Tick(DefaultNackMs \div 2)

SpecProcess == Init /\ [][NextProcess]_vars

\* --------------------------------------------------- subscriptions
SubscribeCalls == {r \in CreateCalls : r.kind = "subscribe"}

\* the broker delivers an event to the consumer of a subscription
SubscribeDeliver ==
  /\ Running
  /\ Len(msgs) < MaxMsgs
  /\ \E c \in DOMAIN channels :
       /\ consuming[c]
       /\ channels[c].kind = "subscribe"
       /\ consumeCallback("subscribe", Message(<<"7">>, "created", FALSE))
       /\ origin' = Append(origin, [chan |-> c, id |-> 0, open |-> TRUE])
  /\ tasks' = Append(tasks, << >>)
  /\ chanLog' = Append(chanLog, << >>)
  /\ UNCHANGED <<moduleVars, connVars, shutdownVars, reach, channels, setupLog, uuids,
                 consuming>>

\* subscriptions whose handlers leave ack and nack alone, as the README asks
\* of a handler under noAck
NextSubscribe ==
  \/ Create(SubscribeCalls)
  \/ OnConnect
  \/ OnDisconnect
  \/ SubscribeDeliver
  \/ HandlerReturns
  \/ HandlerThrows
  \/ TimerFires
  \/ Tick(DefaultNackMs \div 2)

SpecSubscribe == Init /\ [][NextSubscribe]_vars

\* ------------------------------------------------------------ claims
Real == {i \in DOMAIN handlers : handlers[i].real}

\* C1: however many times gracefulShutdown() is invoked, from whatever mix of
\* handlers and direct calls and however interleaved, connectionManager.close()
\* is called exactly once: at most one invocation finds shuttingDown false, and
\* as soon as one invocation has run, close() has been called.
C1_CloseExactlyOnce ==
  /\ closeCalls <= 1
  /\ Cardinality(Real) = closeCalls
  /\ (Len(handlers) >= 1 => closeCalls = 1)

\* three invocations of three kinds, all still awaiting: one close()
C1_Witness ==
  /\ Len(handlers) >= 3
  /\ closeCalls = 1
  /\ \A i \in DOMAIN handlers : handlers[i].pc = "awaiting"
  /\ \E i, j, k \in DOMAIN handlers :
       /\ handlers[i].kind \in Signals
       /\ handlers[j].kind \in Fatal
       /\ handlers[k].kind = "direct"

\* C2: every trigger calls gracefulShutdown(); the handlers of SIGHUP, SIGINT,
\* SIGTERM and beforeExit never call process.exit; the handlers of
\* uncaughtException and unhandledRejection call process.exit with status 1,
\* and only once the promise gracefulShutdown() returned to them has settled.
C2_TriggersAndExit ==
  /\ Len(handlers) = triggers
  /\ \A i \in DOMAIN handlers :
       IF handlers[i].kind \in Fatal
       THEN handlers[i].pc \in {"awaiting", "exited"}
       ELSE handlers[i].pc \in {"awaiting", "done"}
  /\ \A e \in DOMAIN exitLog :
       /\ exitLog[e].kind \in Fatal
       /\ exitLog[e].code = 1
       /\ exitLog[e].promise \in {"fulfilled", "rejected"}
  /\ Len(exitLog) = Cardinality({i \in DOMAIN handlers : handlers[i].pc = "exited"})

\* a signal handler and the beforeExit handler have finished without an exit,
\* then a fatal-error handler has exited
C2_Witness ==
  /\ Len(exitLog) = 1
  /\ \E i, j \in DOMAIN handlers :
       /\ handlers[i].kind \in Signals /\ handlers[i].pc = "done"
       /\ handlers[j].kind = "beforeExit" /\ handlers[j].pc = "done"

\* C3: when close() fails during gracefulShutdown(), the failure is caught and
\* logged, and the promise gracefulShutdown() returned is fulfilled: it is never
\* rejected, whatever close() does, and no caller sees it throw.
C3_ShutdownNeverFails ==
  /\ \A i \in DOMAIN handlers :
       /\ handlers[i].promise # "rejected"
       /\ handlers[i].pc # "threw"
       /\ (handlers[i].real /\ closeState = "rejected" /\ handlers[i].promise = "fulfilled")
            => errorLogged = 1
       /\ (handlers[i].real /\ closeState = "rejected" /\ handlers[i].promise = "pending"
             /\ Alive)
            => ENABLED CloseCaught
  /\ (errorLogged > 0 => closeState = "rejected")

\* close() has failed and the handler that awaited the shutdown has gone on
C3_Witness ==
  /\ closeState = "rejected"
  /\ errorLogged = 1
  /\ \E i \in DOMAIN handlers :
       handlers[i].real /\ handlers[i].promise = "fulfilled" /\ handlers[i].pc = "done"

StartupCall(c) == ~c.shutAtCall /\ ~c.connAtCall /\ ~c.seenAtCall

\* C5: isReachable() called while not shutting down, not connected and before
\* any connect waits one grace window of 2000 ms and rechecks once: connected at
\* the recheck it returns true, otherwise it throws 'did not connect yet'; it
\* waits no second window.
C5_GraceWindowOnce ==
  \A i \in DOMAIN reach :
    StartupCall(reach[i]) =>
      /\ reach[i].waits = 1
      /\ reach[i].elapsed <= 2000
      /\ reach[i].pc = "waiting" => reach[i].rechecks = 0 /\ reach[i].result = "none"
      /\ reach[i].pc = "done" =>
           /\ reach[i].rechecks = 1
           /\ reach[i].elapsed = 2000
           /\ reach[i].result = IF reach[i].connAtRecheck THEN "true" ELSE "notYet"

\* two startup calls: one found the connection at its recheck, one did not
C5_Witness ==
  \E i, j \in DOMAIN reach :
    /\ StartupCall(reach[i]) /\ reach[i].pc = "done" /\ reach[i].result = "true"
    /\ StartupCall(reach[j]) /\ reach[j].pc = "done" /\ reach[j].result = "notYet"

\* C6: isReachable() called while not shutting down, after a connect has
\* happened and with the connection now lost, throws 'not connected' at once:
\* no grace wait, no recheck.
C6_LostFailsAtOnce ==
  \A i \in DOMAIN reach :
    (~reach[i].shutAtCall /\ ~reach[i].connAtCall /\ reach[i].seenAtCall) =>
      /\ reach[i].pc = "done"
      /\ reach[i].result = "notConnected"
      /\ reach[i].waits = 0
      /\ reach[i].rechecks = 0
      /\ reach[i].elapsed = 0

C6_Witness ==
  \E i \in DOMAIN reach :
    /\ ~reach[i].shutAtCall /\ ~reach[i].connAtCall /\ reach[i].seenAtCall
    /\ reach[i].result = "notConnected"

\* C7: isReachable() has two outcomes only: it returns true when the connection
\* is up (at the call, or at the recheck after the grace window) and throws
\* otherwise; it returns no other value.
C7_TrueOrThrows ==
  \A i \in DOMAIN reach :
    reach[i].pc = "done" =>
      /\ reach[i].result \in {"true", "notYet", "notConnected"}
      /\ reach[i].result = "true" <=> (reach[i].connAtCall \/ reach[i].connAtRecheck)

Threw == {m \in DOMAIN msgs : msgs[m].threw}
ByCatch(m) == {t \in DOMAIN tasks[m] : tasks[m][t].by = "catch"}
OfTask(m, t) == SelectSeq(chanLog[m], LAMBDA e : e.task = t)
Settled(m) == \A t \in DOMAIN tasks[m] : tasks[m][t].pc \in {"done", "failed"}

\* C8: for every message whose handler throws or rejects, exactly one negative
\* acknowledgment is issued for the message, with requeue = true and after
\* 10000 ms, and no ack is issued for it.
C8_FailureOneNackNoAck ==
  \A m \in Threw :
    /\ Len(Acks(m)) = 0
    /\ Len(Nacks(m)) <= 1
    /\ \A n \in DOMAIN Nacks(m) :
         Requeues(Nacks(m)[n].args) /\ Nacks(m)[n].elapsed >= 10000
    /\ (Settled(m) => Len(Nacks(m)) = 1)

\* C9: a handler failure is caught in the consume callback and turned into
\* nack(10000, requeue = true): the callback's promise is not rejected, no
\* unhandled rejection and no process.exit comes from it, and the nack it
\* schedules is issued with requeue when its 10000 ms have passed.
C9_FailureBecomesNack ==
  /\ \A m \in Threw :
       /\ msgs[m].pc = "resolved"
       /\ msgs[m].error = "none"
       /\ Cardinality(ByCatch(m)) = 1
       /\ \A t \in ByCatch(m) :
            /\ tasks[m][t].timeout = 10000
            /\ Requeues(tasks[m][t].nackArgs)
            /\ tasks[m][t].redirect = ""
            /\ tasks[m][t].pc \in {"timer", "done"}
            /\ IF tasks[m][t].pc = "timer"
               THEN OfTask(m, t) = << >>
               ELSE /\ Len(OfTask(m, t)) = 1
                    /\ OfTask(m, t)[1].op = "nack"
                    /\ Requeues(OfTask(m, t)[1].args)
                    /\ OfTask(m, t)[1].elapsed >= 10000
  /\ \A r \in DOMAIN rejections : rejections[r] # "handler"
  /\ \A i \in DOMAIN handlers : handlers[i].cause # "handler"
  /\ \A e \in DOMAIN exitLog : exitLog[e].cause # "handler"

\* a handler has thrown and the nack of the catch block has been issued
C9_Witness ==
  \E m \in Threw : \E t \in ByCatch(m) :
    tasks[m][t].pc = "done" /\ Len(OfTask(m, t)) = 1

DlqCall(m, t) ==
  /\ msgs[m].pattern = "worker"
  /\ tasks[m][t].by = "handler"
  /\ tasks[m][t].timeout = 5000
  /\ tasks[m][t].nackArgs = <<FALSE, FALSE>>
  /\ tasks[m][t].redirect = "dlq"

\* C10: nack(5000, false, "dlq") in a worker-queue handler does nothing before
\* 5000 ms have passed, then declares queue "dlq" durable, then sends the
\* original content with the original properties to "dlq", then nacks the
\* original without requeue: each step only after the one before has succeeded.
C10_RedirectOrder ==
  \A m \in DOMAIN msgs : \A t \in DOMAIN tasks[m] :
    DlqCall(m, t) =>
      LET es == OfTask(m, t) IN
      /\ Len(es) = CASE tasks[m][t].pc = "timer" -> 0
                     [] tasks[m][t].pc = "declaring" -> 1
                     [] tasks[m][t].pc = "copying" -> 2
                     [] tasks[m][t].pc = "done" -> 3
                     [] OTHER -> Len(es)
      /\ Len(es) <= 3
      /\ Len(es) >= 1 =>
           /\ es[1].op = "assertQueue"
           /\ es[1].queue = "dlq"
           /\ <<"durable", "true">> \in es[1].options
           /\ es[1].elapsed >= 5000
      /\ Len(es) >= 2 =>
           /\ es[2].op = "sendToQueue"
           /\ es[2].queue = "dlq"
           /\ es[2].content = msgs[m].message.content
           /\ es[2].properties = msgs[m].message.properties
      /\ Len(es) = 3 =>
           /\ es[3].op = "nack"
           /\ ~Requeues(es[3].args)

\* the redirect has run to its end
C10_Witness ==
  \E m \in DOMAIN msgs : \E t \in DOMAIN tasks[m] :
    DlqCall(m, t) /\ tasks[m][t].pc = "done" /\ Len(OfTask(m, t)) = 3

NackOf(m, t) == SelectSeq(OfTask(m, t), LAMBDA e : e.op = "nack")

\* C11: a worker-queue nack called with a redirectQueue nacks the original
\* without requeue, whatever the requeue argument was; the requeue argument
\* decides the negative acknowledgment only when no redirectQueue is given.
C11_RedirectNeverRequeues ==
  \A m \in DOMAIN msgs : \A t \in DOMAIN tasks[m] :
    msgs[m].pattern = "worker" =>
      \A n \in DOMAIN NackOf(m, t) :
        IF tasks[m][t].redirect # ""
        THEN ~Requeues(NackOf(m, t)[n].args)
        ELSE Requeues(NackOf(m, t)[n].args) = tasks[m][t].nackArgs[2]

\* the task of a nack() call without arguments: the defaults of either pattern
DefaultCall(m, t) ==
  /\ tasks[m][t].by = "handler"
  /\ tasks[m][t].timeout = 10000
  /\ tasks[m][t].redirect = ""
  /\ tasks[m][t].nackArgs = IF msgs[m].pattern = "worker" THEN <<FALSE, FALSE>> ELSE << >>

\* C12: nack() without arguments, in a workerQueue or a subscribe handler,
\* issues nothing before 10000 ms have passed and then issues one negative
\* acknowledgment with requeue = false and no redirect.
C12_DefaultNack ==
  \A m \in DOMAIN msgs : \A t \in DOMAIN tasks[m] :
    DefaultCall(m, t) =>
      /\ tasks[m][t].elapsed < 10000 => OfTask(m, t) = << >>
      /\ tasks[m][t].pc \in {"timer", "done"}
      /\ tasks[m][t].pc = "done" =>
           /\ Len(OfTask(m, t)) = 1
           /\ OfTask(m, t)[1].op = "nack"
           /\ OfTask(m, t)[1].elapsed >= 10000
           /\ ~Requeues(OfTask(m, t)[1].args)

\* acks issued and nacks scheduled for message m
AcksAndNackCalls(m) == Len(Acks(m)) + Len(tasks[m])

\* C13: every message delivered to a consume callback gets exactly one terminal
\* disposition, whatever the handler does: never more than one ack or
\* scheduled nack, and exactly one once the callback has ended.
C13_ExactlyOneDisposition ==
  \A m \in DOMAIN msgs :
    ~msgs[m].message.null =>
      /\ AcksAndNackCalls(m) <= 1
      /\ msgs[m].pc # "handler" => AcksAndNackCalls(m) = 1

RunsOf(c) == SelectSeq(setupLog, LAMBDA run : run.chan = c)

\* C14: the setup recipe of a workerQueue, subscribe or plainChannel wrapper
\* runs on the first connect and on every reconnect, and every run issues the
\* calls the first run issued: same exchange and type, same queue name and
\* options, same bindings, same prefetch, same consume options.
C14_ReplaySame ==
  /\ \A c \in DOMAIN channels : connected => RunsOf(c) # << >>
  /\ \A c \in DOMAIN channels : \A k \in DOMAIN RunsOf(c) :
       RunsOf(c)[k].calls = RunsOf(c)[1].calls

Cancels == {m \in DOMAIN msgs : msgs[m].message.null}

\* C15: a null (cancelled) delivery makes the consume callback raise the
\* consumer-cancelled condition without invoking the handler and without any
\* ack or nack; the callback does not consume again in place: a consumer is
\* registered only by a run of the setup recipe.
C15_CancelledConsumer ==
  [][/\ \A c \in DOMAIN consuming' :
          (consuming'[c] /\ (c \in DOMAIN consuming => ~consuming[c])) =>
             /\ Len(setupLog') > Len(setupLog)
             /\ \E k \in (Len(setupLog) + 1)..Len(setupLog') : setupLog'[k].chan = c
     /\ \A m \in Cancels' :
          /\ msgs'[m].pc = "rejected"
          /\ msgs'[m].error = "cancelled"
          /\ msgs'[m].event = NoEvent
          /\ tasks'[m] = << >>
          /\ chanLog'[m] = << >>
     /\ \A m \in Cancels' \ Cancels :
          /\ origin'[m].chan \in DOMAIN channels
          /\ consuming[origin'[m].chan]
          /\ ~consuming'[origin'[m].chan]
          /\ setupLog' = setupLog
    ]_vars

\* a consumer was cancelled: its callback has rejected and its channel has no
\* consumer
C15_Witness ==
  \E m \in Cancels :
    /\ msgs[m].pc = "rejected"
    /\ channels[origin[m].chan].kind = "worker"
    /\ ~consuming[origin[m].chan]
    /\ Len(RunsOf(origin[m].chan)) >= 2

\* C16: only the fatal triggers (uncaughtException, unhandledRejection) force
\* a non-zero exit; a consumer-cancelled condition, a handler failure and a
\* failure of close() are recovered locally: no process.exit comes from any
\* of them.
C16_OnlyFatalExits ==
  /\ \A e \in DOMAIN exitLog :
       /\ exitLog[e].kind \in Fatal
       /\ exitLog[e].cause \notin {"cancelled", "handler"}
  /\ \A i \in DOMAIN handlers : handlers[i].pc # "threw"

Runs(id) == {m \in DeliveriesOf(id) : msgs[m].pc # "rejected"}
InHandler(id) == {m \in DeliveriesOf(id) : msgs[m].pc = "handler"}
Completed(id) == {m \in DeliveriesOf(id) : msgs[m].pc = "resolved" /\ ~msgs[m].threw}

\* C19: with competing consumers on the worker queue, a message is held by one
\* consumer at a time and is processed exactly once: no two handler runs work
\* on the same message, and no message is processed to the end twice; a
\* message whose holder went offline is delivered again.
C19_ExactlyOnce ==
  \A id \in 1..MaxQueued :
    /\ Cardinality({m \in DeliveriesOf(id) : Held(m)}) <= 1
    /\ Cardinality(InHandler(id)) <= 1
    /\ Cardinality(Completed(id)) <= 1

Workers == {c \in DOMAIN channels : channels[c].kind = "worker"}

\* deliveries of channel c with a nack scheduled and not yet issued
Scheduled(c) ==
  {m \in HeldOn(c) : \E t \in DOMAIN tasks[m] : tasks[m][t].pc = "timer"}

Count(array, h) == Cardinality({i \in DOMAIN array : array[i] = h})

C21_ShufflePermutes ==
  /\ Len(shuffled.result) = Len(shuffled.array)
  /\ \A h \in Hosts : Count(shuffled.result, h) = Count(shuffled.array, h)

\* a list of three with a repeated endpoint comes back in another order
C21_Witness ==
  /\ Len(shuffled.array) = 3
  /\ shuffled.array[1] = shuffled.array[2]
  /\ shuffled.array[3] # shuffled.array[1]
  /\ shuffled.result[1] = shuffled.array[3]

\* C22: publish() hands the wrapper the JSON text of the content and the
\* properties persistent = true, contentType = application/json, a messageId
\* no other call generated, the type and appID arguments and the timestamp;
\* and a key present in options wins over all of these.
Given(p, k, v) ==
  IF Has(p.args.options, k)
    THEN Get(p.args.options, k)
    ELSE v

C22_PublishEnvelope ==
  \A i \in DOMAIN published :
    LET p == published[i] IN
      /\ p.content = JSONStringify(p.args.content)
      /\ JSONParse(p.content) = p.args.content
      /\ Get(p.properties, "persistent") = Given(p, "persistent", "true")
      /\ Get(p.properties, "contentType") = Given(p, "contentType", "application/json")
      /\ Get(p.properties, "messageId") = Given(p, "messageId", UuidStr(p.args.id))
      /\ Get(p.properties, "type") = Given(p, "type", p.args.type)
      /\ Get(p.properties, "appId") = Given(p, "appId", p.args.appID)
      /\ Get(p.properties, "timestamp") = Given(p, "timestamp", p.args.now)
      /\ p.args.options \subseteq p.properties
      /\ \A j \in DOMAIN published : j # i => published[j].args.id # p.args.id

\* two publications, one whose options replace the type and appID given by
\* position, one that leaves the generated messageId in place
C22_Witness ==
  \E i, j \in DOMAIN published :
    /\ i # j
    /\ published[i].args.type = "created"
    /\ Get(published[i].properties, "type") = "deleted"
    /\ Get(published[i].properties, "appId") = "other"
    /\ published[j].args.options = NoOptions
    /\ Get(published[j].properties, "messageId") = UuidStr(published[j].args.id)
    /\ Get(published[j].properties, "persistent") = "true"

\* C23: with the stub in place no connection is attempted and no operation
\* has an effect: no connect event, no setup run, nothing sent, nothing
\* delivered; isReachable() returns false when the flag is set and true
\* otherwise, at once and without throwing; gracefulShutdown() calls the
\* stub's close() exactly once, and that close never rejects.
C23_StubNoOps ==
  /\ ~connected /\ ~connectSeen /\ neverConnected
  /\ setupLog = << >> /\ msgs = << >>
  /\ \A c \in DOMAIN consuming : ~consuming[c]
  /\ \A i \in DOMAIN published : ~published[i].sent
  /\ \A i \in DOMAIN reach :
       /\ reach[i].pc = "done"
       /\ reach[i].waits = 0
       /\ reach[i].result = IF reach[i].shutAtCall THEN "false" ELSE "true"
  /\ closeCalls <= 1
  /\ (Len(handlers) >= 1 => closeCalls = 1)
  /\ closeState # "rejected"
  /\ errorLogged = 0
  /\ \A i \in DOMAIN handlers : handlers[i].promise # "rejected"

\* a publisher was set up, a message was published, isReachable was asked
\* before and after two shutdown requests, and the close resolved
C23_Witness ==
  /\ stub
  /\ published # << >>
  /\ \E i, j \in DOMAIN reach : reach[i].result = "true" /\ reach[j].result = "false"
  /\ Len(handlers) >= 2
  /\ closeState = "resolved"

\* C24: every run of a subscribe setup declares a queue named by the given
\* prefix followed by a token, and no two such runs, of one subscription or
\* of two, with the same prefix or not, declare the same name.
SubscribeRuns == {k \in DOMAIN setupLog : channels[setupLog[k].chan].kind = "subscribe"}

Declares(k) ==
  {setupLog[k].calls[n].queue :
     n \in {x \in DOMAIN setupLog[k].calls : setupLog[k].calls[x].op = "assertQueue"}}

C24_FreshQueueNames ==
  /\ \A k \in SubscribeRuns :
       /\ Cardinality(Declares(k)) = 1
       /\ \A q \in Declares(k) :
            /\ Len(q) = 3
            /\ q[1] = channels[setupLog[k].chan].queueName
            /\ q[3] \in 1..uuids
  /\ \A k, l \in SubscribeRuns : k # l => Declares(k) \cap Declares(l) = {}

\* two subscriptions with the same prefix, one of them set up a second time
\* after a reconnect
C24_Witness ==
  \E k, l, m \in SubscribeRuns :
    /\ k # l /\ setupLog[k].chan = setupLog[l].chan
    /\ setupLog[m].chan # setupLog[k].chan
    /\ channels[setupLog[m].chan].queueName = channels[setupLog[k].chan].queueName

\* C25: in every run of a workerQueue or subscribe setup, first or replayed,
\* the queue is declared before the prefetch is set and before the consumer
\* is registered on that queue; the run issues all its calls at once, each
\* binding after the exchange and the queue it joins, and waits for none of
\* them before issuing the next.
ConsumerRuns == {k \in DOMAIN setupLog : Consumes(channels[setupLog[k].chan])}

Before(calls, n, op) == {q \in 1..(n - 1) : calls[q].op = op}

C25_DeclareFirst ==
  \A k \in ConsumerRuns :
    LET calls == setupLog[k].calls IN
      /\ \A n \in DOMAIN calls :
           /\ calls[n].op = "prefetch" => Before(calls, n, "assertQueue") # {}
           /\ calls[n].op = "consume" =>
                \E q \in Before(calls, n, "assertQueue") : calls[q].queue = calls[n].queue
           /\ calls[n].op = "bindQueue" =>
                /\ \E q \in Before(calls, n, "assertQueue") : calls[q].queue = calls[n].queue
                /\ Before(calls, n, "assertExchange") # {}
      /\ \E n \in DOMAIN calls : calls[n].op = "consume"
      /\ Cardinality({n \in DOMAIN calls : calls[n].op = "bindQueue"})
           = Len(channels[setupLog[k].chan].bindings)

\* a worker queue with two bindings set up a second time after a reconnect,
\* and a subscription set up
C25_Witness ==
  /\ \E k, l \in ConsumerRuns :
       /\ k < l /\ setupLog[k].chan = setupLog[l].chan
       /\ channels[setupLog[k].chan].kind = "worker"
       /\ Len(channels[setupLog[k].chan].bindings) = 2
  /\ \E k \in ConsumerRuns : channels[setupLog[k].chan].kind = "subscribe"

\* C26: nothing guards against a second disposition.  Whatever was called for
\* a message before, every ack() is on the channel wrapper at once and every
\* nack() call has its own timer, whose end puts exactly one nack on the
\* channel wrapper; no call is dropped, and none makes the callback fail or
\* leaves a rejection.
C26_NoGuard ==
  /\ \A m \in DOMAIN msgs :
       /\ \A t \in DOMAIN tasks[m] :
            /\ tasks[m][t].pc \in {"timer", "done"}
            /\ IF tasks[m][t].pc = "timer"
               THEN OfTask(m, t) = << >>
               ELSE /\ Len(OfTask(m, t)) = 1
                    /\ OfTask(m, t)[1].op = "nack"
                    /\ OfTask(m, t)[1].target = "channelWrapper"
                    /\ OfTask(m, t)[1].elapsed = tasks[m][t].timeout
       /\ \A n \in DOMAIN Acks(m) :
            /\ Acks(m)[n].target = "channelWrapper"
            /\ Acks(m)[n].elapsed = 0
       /\ Len(Nacks(m)) = Cardinality({t \in DOMAIN tasks[m] : tasks[m][t].pc = "done"})
       /\ msgs[m].error \in {"none", "cancelled", "parse"}
  /\ \A r \in DOMAIN rejections : rejections[r] \in {"cancelled", "parse"}
  /\ \A i \in DOMAIN handlers : handlers[i].cause \in {"event", "cancelled", "parse"}

\* a handler has called ack() and nack() and then failed: the ack and both
\* nacks, the handler's and the catch block's, are on the channel wrapper
C26_Witness ==
  \E m \in DOMAIN msgs :
    /\ Len(Acks(m)) = 1
    /\ Len(Nacks(m)) = 2
    /\ \E t \in DOMAIN tasks[m] : tasks[m][t].by = "handler" /\ tasks[m][t].pc = "done"
    /\ exitLog = << >>

\* C27: ack() acknowledges at once: the step in which a handler calls ack()
\* is the step that puts the ack on the channel wrapper, it arms no timer and
\* suspends nothing, and the ack names the message that this run of the
\* callback was given.
AckNow(m) ==
  Len(Acks(m))' > Len(Acks(m)) =>
    LET e == chanLog'[m][Len(chanLog'[m])] IN
      /\ msgs[m].pc = "handler"
      /\ Len(chanLog'[m]) = Len(chanLog[m]) + 1
      /\ e.op = "ack" /\ e.target = "channelWrapper"
      /\ e.task = 0 /\ e.elapsed = 0
      /\ e.content = msgs[m].message.content
      /\ e.properties = msgs[m].message.properties
      /\ UNCHANGED <<msgs, tasks, rejections>>

C27_AckAtOnce ==
  /\ [][\A m \in DOMAIN msgs : AckNow(m)]_vars
  /\ [](\A m \in DOMAIN msgs : \A n \in DOMAIN Acks(m) :
          /\ Acks(m)[n].elapsed = 0
          /\ Acks(m)[n].content = msgs[m].message.content
          /\ ~msgs[m].message.null)

\* a handler has acknowledged its message and returned
C27_Witness ==
  \E m \in DOMAIN msgs :
    /\ Len(Acks(m)) = 1
    /\ Acks(m)[1].content = <<"7">>
    /\ msgs[m].pc = "resolved"

\* C28: a timer is never cancelled.  From the nack() call on, whatever step
\* is taken (an ack of the same message, a disconnect or connect, a shutdown
\* request, the end of close()), the timer stays armed with its delay until
\* it has run out, and the step that ends it puts the call of its callback on
\* the channel; while the process runs a timer that has run out can fire.  The
\* same holds for the grace wait of isReachable() and its recheck.  After
\* process.exit nothing fires.
TimerKept(m, t) ==
  tasks[m][t].pc = "timer" =>
    \/ /\ tasks'[m][t].pc = "timer"
       /\ tasks'[m][t].timeout = tasks[m][t].timeout
       /\ tasks'[m][t].elapsed >= tasks[m][t].elapsed
    \/ /\ tasks'[m][t].pc = "done"
       /\ tasks[m][t].elapsed >= tasks[m][t].timeout
       /\ Len(OfTask(m, t))' = 1
       /\ exitLog = << >>

WaitKept(i) ==
  reach[i].pc = "waiting" =>
    \/ /\ reach'[i].pc = "waiting"
       /\ reach'[i].elapsed >= reach[i].elapsed
    \/ /\ reach'[i].pc = "done"
       /\ reach[i].elapsed >= GraceMs
       /\ reach'[i].rechecks = 1
       /\ exitLog = << >>

NackDue ==
  \E m \in DOMAIN tasks : \E t \in DOMAIN tasks[m] :
    tasks[m][t].pc = "timer" /\ tasks[m][t].elapsed >= tasks[m][t].timeout

WaitDue ==
  \E i \in DOMAIN reach : reach[i].pc = "waiting" /\ reach[i].elapsed >= GraceMs

C29_Frame ==
  [][/\ (connected' # connected \/ neverConnected' # neverConnected) =>
          (OnConnect \/ OnDisconnect \/ CloseResolves)
     /\ shuttingDown' # shuttingDown =>
          /\ Len(handlers') = Len(handlers) + 1
          /\ triggers' = triggers + 1
     /\ (reach' # reach \/ channels' # channels \/ published' # published
           \/ chanLog' # chanLog \/ tasks' # tasks) =>
          UNCHANGED <<connected, neverConnected, shuttingDown>>
    ]_vars

\* a connection came up and a shutdown was requested, and isReachable,
\* a channel function and publish have all been called
C29_Witness ==
  /\ ~neverConnected
  /\ shuttingDown
  /\ reach # << >>
  /\ channels # << >>
  /\ published # << >>

\* C30: process.exit(1) is called only when the one real close() has settled,
\* whichever trigger started that close: no exit while close() is pending.
C30_ExitAfterClose ==
  \A e \in DOMAIN exitLog : exitLog[e].close \in {"resolved", "rejected"}

\* C31: every ack and nack for a message goes to the channel incarnation that
\* delivered it: when a message gets its first disposition while the wrapper
\* has a live channel, that channel is the one that delivered the message,
\* not one a later connect has put in its place.
C31_SameIncarnation ==
  [][\A m \in DOMAIN origin :
       (Dispositions(m) = << >> /\ Dispositions(m)' # << >> /\ connected
          /\ consuming[origin[m].chan])
         => origin[m].open]_vars

\* C32: an isReachable() call waiting in its grace window when the shutdown
\* flag is set (or set before the window ends) completes by returning false:
\* with the flag set no call completes with true or with an error.
C32_SuspendedReturnsFalse ==
  [][\A i \in DOMAIN reach :
       (reach[i].pc = "waiting" /\ reach'[i].pc = "done" /\ shuttingDown)
         => reach'[i].result = "false"]_vars

\* C33: isReachable() fails with 'did not connect yet' only if no connect
\* event has happened up to the failure; if one has (during the grace window
\* too, followed by a disconnect), the failure is 'not connected'.
C33_NotYetOnlyBeforeConnect ==
  [][\A i \in DOMAIN reach :
       (reach[i].pc = "waiting" /\ reach'[i].pc = "done"
          /\ reach'[i].result = "notYet") => ~connectSeen]_vars

\* the consumer of channel c was registered with noAck
NoAck(c) ==
  \E k \in DOMAIN setupLog : \E n \in DOMAIN setupLog[k].calls :
    /\ setupLog[k].chan = c
    /\ setupLog[k].calls[n].op = "consume"
    /\ <<"noAck", "true">> \in setupLog[k].calls[n].options

\* C34: for a subscription created with noAck no ack and no nack is ever put
\* on the channel for any of its deliveries, a delivery whose handler throws
\* or rejects included.
C34_NoAckNoDisposition ==
  \A m \in DOMAIN origin : NoAck(origin[m].chan) => Dispositions(m) = << >>

\* C35: on the redirect path the original is nacked only after the redirect
\* queue was declared and the copy was sent to it, both with success; when
\* the declaration or the copy fails, no nack is issued for the original.
C35_NackOnlyAfterCopy ==
  \A m \in DOMAIN msgs : \A t \in DOMAIN tasks[m] :
    tasks[m][t].redirect # "" =>
      LET es == OfTask(m, t) IN
        /\ tasks[m][t].pc \in {"timer", "declaring", "copying", "failed"}
             => NackOf(m, t) = << >>
        /\ tasks[m][t].pc = "failed" => Len(es) \in {1, 2}
        /\ \A n \in DOMAIN es :
             es[n].op = "nack" =>
               /\ n = 3
               /\ tasks[m][t].pc = "done"
               /\ es[1].op = "assertQueue" /\ es[1].queue = tasks[m][t].redirect
               /\ es[2].op = "sendToQueue" /\ es[2].queue = tasks[m][t].redirect
               /\ es[2].content = msgs[m].message.content

\* a redirect whose copy failed after the queue was declared: the original
\* has no nack; the rejection has been reported to the process
C35_Witness ==
  \E m \in DOMAIN msgs : \E t \in DOMAIN tasks[m] :
    /\ tasks[m][t].redirect # ""
    /\ tasks[m][t].pc = "failed"
    /\ Len(OfTask(m, t)) = 2
    /\ Nacks(m) = << >>
    /\ \E i \in DOMAIN handlers : handlers[i].cause = "redirect"

\* C36: the payload is parsed before the guarded handler call: for a message
\* that is not null and whose payload is not JSON the handler is not called,
\* no ack and no nack is issued or scheduled, and the parse error leaves the
\* consume callback as a rejection instead of becoming a delayed nack.
Unparsed == {m \in DOMAIN msgs : ~msgs[m].message.null /\ ParseFails(msgs[m].message.content)}

C36_ParseFailureEscapes ==
  \A m \in Unparsed :
    /\ msgs[m].pc = "rejected"
    /\ msgs[m].error = "parse"
    /\ msgs[m].event = NoEvent
    /\ ~msgs[m].threw
    /\ tasks[m] = << >>
    /\ chanLog[m] = << >>
    /\ \/ \E r \in DOMAIN rejections : rejections[r] = "parse"
       \/ \E i \in DOMAIN handlers : handlers[i].cause = "parse"

\* a payload that is not JSON was delivered to a worker-queue callback; the
\* rejection has reached the process
C36_Witness ==
  \E m \in Unparsed :
    /\ msgs[m].pattern = "worker"
    /\ \E i \in DOMAIN handlers :
         handlers[i].cause = "parse" /\ handlers[i].kind = "unhandledRejection"

C38_NeverConnectedMonotone ==
  /\ neverConnected = TRUE
  /\ [](neverConnected <=> ~connectSeen)
  /\ [][~neverConnected => ~neverConnected']_vars
  /\ [][(neverConnected' # neverConnected) => (~connected /\ connected')]_vars
  /\ [][(Len(reach') > Len(reach) /\ reach'[Len(reach')].waits > 0) =>
          (neverConnected /\ ~connectSeen)]_vars

\* connect, disconnect, an isReachable() call that failed with 'not connected'
\* and no wait, a reconnect and a shutdown: the flag is still false
C38_Witness ==
  /\ ~neverConnected
  /\ connected
  /\ shuttingDown
  /\ \E i \in DOMAIN reach :
       /\ reach[i].seenAtCall /\ ~reach[i].connAtCall
       /\ reach[i].result = "notConnected" /\ reach[i].waits = 0

\* C39: when publish is called without the type and appID arguments and the
\* options do not set them, the properties sent carry the defaults
\* type = 'event' and appId = 'unknown'.
C39_DefaultsWhenOmitted ==
  \A i \in DOMAIN published :
    LET p == published[i] IN
      /\ (p.args.type = Undefined /\ ~Has(p.args.options, "type"))
           => Get(p.properties, "type") = "event"
      /\ (p.args.appID = Undefined /\ ~Has(p.args.options, "appId"))
           => Get(p.properties, "appId") = "unknown"

====
